---- MODULE Spec2Model ----
(***************************************************************************)
(* The assistant-bot address book of src/final.py: field types, Record,    *)
(* AddressBook, the command handlers and the command loop of main().       *)
(*                                                                         *)
(* Representation.  A Python str that the program inspects (a token of the *)
(* input line, a stored field value) is a sequence of one-character        *)
(* strings.  A text the program only builds and prints is a TLA+ string,   *)
(* built with \o; a printed text of several lines ("\n".join(...)) is the  *)
(* sequence of its lines, which is faithful because no token produced by   *)
(* str.split() contains a line break.                                      *)
(***************************************************************************)
EXTENDS Integers, Sequences, FiniteSets, TLC

VARIABLES book, out, status, last, steps

vars == <<book, out, status, last, steps>>

(***************************************************************************)
(* Bounds of the model.                                                    *)
(***************************************************************************)
\* Number of input lines read in one run of the command loop.
MaxSteps == 4

\* Most phones, and most emails, one Record holds when its methods are
\* called directly (RecordSpec).
MaxRecPhones == 3

MaxRecEmails == 1

(***************************************************************************)
(* Characters and strings.                                                 *)
(***************************************************************************)
AsciiDigits == {"0", "1", "2", "3", "4", "5", "6", "7", "8", "9"}

\* "U+0663" stands for the single character ARABIC-INDIC DIGIT THREE: in a
\* str pattern \d matches every Unicode decimal digit (category Nd).
IsDigit(c) == c \in AsciiDigits \cup {"U+0663"}

DigitVal(c) ==
    CASE c = "0" -> 0 [] c = "1" -> 1 [] c = "2" -> 2 [] c = "3" -> 3
      [] c = "4" -> 4 [] c = "5" -> 5 [] c = "6" -> 6 [] c = "7" -> 7
      [] c = "8" -> 8 [] c = "9" -> 9 [] c = "U+0663" -> 3

DigitChar(n) ==
    CASE n = 0 -> "0" [] n = 1 -> "1" [] n = 2 -> "2" [] n = 3 -> "3"
      [] n = 4 -> "4" [] n = 5 -> "5" [] n = 6 -> "6" [] n = 7 -> "7"
      [] n = 8 -> "8" [] n = 9 -> "9"

\* str.lower() on one character (the letters the inputs use).
LowerChar(c) ==
    CASE c = "A" -> "a" [] c = "C" -> "c" [] c = "D" -> "d" [] c = "E" -> "e"
      [] c = "I" -> "i" [] c = "L" -> "l" [] c = "O" -> "o" [] c = "S" -> "s"
      [] c = "T" -> "t" [] c = "X" -> "x"
      [] OTHER -> c

Lower(s) == [i \in 1..Len(s) |-> LowerChar(s[i])]

\* The text of a character sequence.
RECURSIVE Str(_)
Str(cs) == IF cs = <<>> THEN "" ELSE Head(cs) \o Str(Tail(cs))

\* sep.join(parts) for texts.
RECURSIVE Join(_, _)
Join(sep, parts) ==
    IF parts = <<>> THEN ""
    ELSE IF Len(parts) = 1 THEN parts[1]
    ELSE parts[1] \o sep \o Join(sep, Tail(parts))

\* The decimal value of a run of digits, as int() and strptime compute it.
RECURSIVE DecVal(_)
DecVal(cs) ==
    IF cs = <<>> THEN 0
    ELSE 10 * DecVal(SubSeq(cs, 1, Len(cs) - 1)) + DigitVal(cs[Len(cs)])

AllDigits(cs) == \A i \in 1..Len(cs) : IsDigit(cs[i])

\* The text of n >= 0 in decimal, left-padded with zeros to width w.
RECURSIVE Dec(_, _)
Dec(n, w) ==
    IF n < 10 /\ w <= 1 THEN DigitChar(n)
    ELSE Dec(n \div 10, w - 1) \o DigitChar(n % 10)

RemoveAt(s, i) == SubSeq(s, 1, i - 1) \o SubSeq(s, i + 1, Len(s))

\* The texts of a list of values.
Strs(s) == [i \in 1..Len(s) |-> Str(s[i])]

(***************************************************************************)
(* Exceptions: an operation that may raise returns a record whose exc      *)
(* field names the exception ("" when it returned) and whose msg field is  *)
(* str(e).                                                                 *)
(***************************************************************************)
NoExc == ""

\* None, for an optional value held as a sequence of at most one element.
None == <<>>

(***************************************************************************)
(* Field types.                                                            *)
(***************************************************************************)
\* The pattern tried with re.match: a prefix of ten digits is enough.
Phone_validate_match(value) ==
    Len(value) >= 10 /\ AllDigits(SubSeq(value, 1, 10))

\* re.fullmatch(r"\d{10}", value) is not None
Phone_validate(value) == Len(value) = 10 /\ AllDigits(value)

Phone(value) ==
    IF Phone_validate(value)
    THEN [exc |-> NoExc, msg |-> "", value |-> value]
    ELSE [exc |-> "ValueError",
          msg |-> "Invalid phone number format. It should be 10 digits.",
          value |-> value]

\* re.fullmatch(r"[^@]+@[^@]+\.[^@]+", value) is not None
Email_validate(value) ==
    \E i \in 2..Len(value) :
        /\ value[i] = "@"
        /\ \A k \in 1..Len(value) : value[k] = "@" => k = i
        /\ \E j \in (i + 2)..(Len(value) - 1) : value[j] = "."

Email(value) ==
    IF Email_validate(value)
    THEN [exc |-> NoExc, msg |-> "", value |-> value]
    ELSE [exc |-> "ValueError", msg |-> "Invalid email format.", value |-> value]

\* calendar
IsLeap(y) == y % 4 = 0 /\ (y % 100 # 0 \/ y % 400 = 0)

DaysInMonth(y, m) ==
    IF m = 2 THEN (IF IsLeap(y) THEN 29 ELSE 28)
    ELSE IF m \in {4, 6, 9, 11} THEN 30 ELSE 31

RECURSIVE DaysBeforeMonth(_, _)
DaysBeforeMonth(y, m) ==
    IF m = 1 THEN 0 ELSE DaysBeforeMonth(y, m - 1) + DaysInMonth(y, m - 1)

\* date.toordinal(): 01.01.0001 is day 1.
Ordinal(d) ==
    LET y == d.year - 1
    IN  y * 365 + (y \div 4) - (y \div 100) + (y \div 400)
        + DaysBeforeMonth(d.year, d.month) + d.day

\* The fields of value.split("."): the positions of the dots.
Dots(value) == {i \in 1..Len(value) : value[i] = "."}

\* datetime.strptime(value, "%d.%m.%Y"): %d is one or two digits naming
\* 1..31, %m one or two digits naming 1..12, %Y exactly four digits; the
\* date must exist (year >= 1, day within the month).
Birthday(value) ==
    LET bad == [exc |-> "ValueError",
                msg |-> "Invalid date format. Use DD.MM.YYYY",
                value |-> None]
    IN  IF Cardinality(Dots(value)) # 2 THEN bad
        ELSE
          LET i  == CHOOSE i \in Dots(value) : \A k \in Dots(value) : i <= k
              j  == CHOOSE j \in Dots(value) : \A k \in Dots(value) : k <= j
              dd == SubSeq(value, 1, i - 1)
              mm == SubSeq(value, i + 1, j - 1)
              yy == SubSeq(value, j + 1, Len(value))
          IN  IF /\ Len(dd) \in {1, 2} /\ AllDigits(dd)
                 /\ Len(mm) \in {1, 2} /\ AllDigits(mm)
                 /\ Len(yy) = 4 /\ AllDigits(yy)
                 /\ DecVal(dd) \in 1..31
                 /\ DecVal(mm) \in 1..12
                 /\ DecVal(yy) >= 1
                 /\ DecVal(dd) <= DaysInMonth(DecVal(yy), DecVal(mm))
              THEN [exc |-> NoExc, msg |-> "",
                    value |-> <<[year |-> DecVal(yy), month |-> DecVal(mm),
                                 day |-> DecVal(dd)]>>]
              ELSE bad

\* value.strftime("%d.%m.%Y") (years from 1000 on, where every platform
\* prints four digits).
strftime(d) == Dec(d.day, 2) \o "." \o Dec(d.month, 2) \o "." \o Dec(d.year, 4)

(***************************************************************************)
(* Record: [name, phones, emails, birthday].  phones and emails are the    *)
(* lists of the values of the Phone and Email objects, in list order;      *)
(* birthday is None or <<date>>.                                           *)
(***************************************************************************)
Record(name) ==
    [name |-> name, phones |-> <<>>, emails |-> <<>>, birthday |-> None]

Returned(rec) == [exc |-> NoExc, msg |-> "", rec |-> rec]

\* The position of the first Phone whose value is phone; 0 for None.
find_phone(rec, phone) ==
    IF \E i \in 1..Len(rec.phones) : rec.phones[i] = phone
    THEN CHOOSE i \in 1..Len(rec.phones) :
            /\ rec.phones[i] = phone
            /\ \A k \in 1..(i - 1) : rec.phones[k] # phone
    ELSE 0

\* insert(0, ...) in place of append.
add_phone_front(rec, phone) ==
    LET p == Phone(phone)
    IN  IF p.exc = NoExc
        THEN Returned([rec EXCEPT !.phones = <<p.value>> \o @])
        ELSE [exc |-> p.exc, msg |-> p.msg, rec |-> rec]

add_phone(rec, phone) ==
    LET p == Phone(phone)
    IN  IF p.exc = NoExc
        THEN Returned([rec EXCEPT !.phones = Append(@, p.value)])
        ELSE [exc |-> p.exc, msg |-> p.msg, rec |-> rec]

\* list.remove(obj) takes out the object find_phone returned: every Phone
\* in the list is a distinct object, so that is the position found.
\* Every Phone equal to phone is taken out, not the first alone.
remove_phone_all(rec, phone) ==
    LET Other(p) == p # phone
    IN  Returned([rec EXCEPT !.phones = SelectSeq(@, Other)])

remove_phone(rec, phone) ==
    LET phone_to_remove == find_phone(rec, phone)
    IN  IF phone_to_remove # 0
        THEN Returned([rec EXCEPT !.phones = RemoveAt(@, phone_to_remove)])
        ELSE Returned(rec)

\* The edit made atomic: new_phone is validated before the old Phone is
\* taken out.
edit_phone_atomic(rec, old_phone, new_phone) ==
    LET phone_to_edit == find_phone(rec, old_phone)
        p == Phone(new_phone)
    IN  IF phone_to_edit = 0 THEN Returned(rec)
        ELSE IF p.exc # NoExc THEN [exc |-> p.exc, msg |-> p.msg, rec |-> rec]
        ELSE Returned([rec EXCEPT
                 !.phones = Append(RemoveAt(@, phone_to_edit), p.value)])

edit_phone(rec, old_phone, new_phone) ==
    LET phone_to_edit == find_phone(rec, old_phone)
    IN  IF phone_to_edit # 0
        THEN add_phone([rec EXCEPT !.phones = RemoveAt(@, phone_to_edit)],
                       new_phone)
        ELSE Returned(rec)

find_email(rec, email) ==
    IF \E i \in 1..Len(rec.emails) : rec.emails[i] = email
    THEN CHOOSE i \in 1..Len(rec.emails) :
            /\ rec.emails[i] = email
            /\ \A k \in 1..(i - 1) : rec.emails[k] # email
    ELSE 0

add_email(rec, email) ==
    LET e == Email(email)
    IN  IF e.exc = NoExc
        THEN Returned([rec EXCEPT !.emails = Append(@, e.value)])
        ELSE [exc |-> e.exc, msg |-> e.msg, rec |-> rec]

remove_email(rec, email) ==
    LET email_to_remove == find_email(rec, email)
    IN  IF email_to_remove # 0
        THEN Returned([rec EXCEPT !.emails = RemoveAt(@, email_to_remove)])
        ELSE Returned(rec)

edit_email(rec, old_email, new_email) ==
    LET email_to_edit == find_email(rec, old_email)
    IN  IF email_to_edit # 0
        THEN add_email([rec EXCEPT !.emails = RemoveAt(@, email_to_edit)],
                       new_email)
        ELSE Returned(rec)

add_birthday(rec, birthday) ==
    LET b == Birthday(birthday)
    IN  IF b.exc = NoExc
        THEN Returned([rec EXCEPT !.birthday = b.value])
        ELSE [exc |-> b.exc, msg |-> b.msg, rec |-> rec]

\* Record.__str__
Record_str(rec) ==
    LET phones   == Join("; ", Strs(rec.phones))
        emails   == Join("; ", Strs(rec.emails))
        birthday == IF rec.birthday # None THEN strftime(rec.birthday[1])
                    ELSE "N/A"
    IN  "Contact name: " \o Str(rec.name) \o ", phones: " \o phones
        \o ", emails: " \o emails \o ", birthday: " \o birthday

(***************************************************************************)
(* AddressBook: the dict self.data, as the sequence of its Records in      *)
(* insertion order, each keyed by its name.                                *)
(***************************************************************************)
\* The position of the Record keyed name; 0 for None.
find(b, name) ==
    IF \E i \in 1..Len(b) : b[i].name = name
    THEN CHOOSE i \in 1..Len(b) : b[i].name = name
    ELSE 0

\* A new key put first, not last.
add_record_front(b, record) ==
    IF find(b, record.name) # 0
    THEN [b EXCEPT ![find(b, record.name)] = record]
    ELSE <<record>> \o b

\* self.data[record.name.value] = record: a new key goes last, an existing
\* key keeps its place.
add_record(b, record) ==
    IF find(b, record.name) # 0
    THEN [b EXCEPT ![find(b, record.name)] = record]
    ELSE Append(b, record)

delete(b, name) ==
    IF find(b, name) # 0 THEN RemoveAt(b, find(b, name)) ELSE b

\* A clock reading: the date, and tod = 0 for 00:00:00.000000 exactly,
\* 1 for any later time of that day.
MaxOrdinal == 3652059

\* today <= next_birthday, a datetime at midnight.
NotAfter(today, next_birthday) ==
    \/ Ordinal(today) < Ordinal(next_birthday)
    \/ Ordinal(today) = Ordinal(next_birthday) /\ today.tod = 0

\* The walk of get_upcoming_birthdays over the records from position i on:
\* acc is upcoming_birthdays so far.  replace(year=...) raises ValueError
\* for 29 February in a common year; the chained comparison evaluates
\* today + timedelta(days=days) only when today <= next_birthday, and that
\* raises OverflowError for |days| > 999999999 or a date outside
\* 0001..9999.
RECURSIVE upcoming(_, _, _, _, _)
upcoming(b, today, days, i, acc) ==
    IF i > Len(b) THEN [exc |-> NoExc, msg |-> "", val |-> acc]
    ELSE IF b[i].birthday = None THEN upcoming(b, today, days, i + 1, acc)
    ELSE
      LET bd == b[i].birthday[1]
      IN  IF bd.day > DaysInMonth(today.year, bd.month)
          THEN [exc |-> "ValueError", msg |-> "day is out of range for month",
                val |-> acc]
          ELSE
            LET next_birthday == [bd EXCEPT !.year = today.year]
            IN  IF ~ NotAfter(today, next_birthday)
                THEN upcoming(b, today, days, i + 1, acc)
                ELSE IF \/ days > 999999999 \/ days < -999999999
                        \/ Ordinal(today) + days > MaxOrdinal
                        \/ Ordinal(today) + days < 1
                THEN [exc |-> "OverflowError", msg |-> "date value out of range",
                      val |-> acc]
                ELSE IF Ordinal(next_birthday) <= Ordinal(today) + days
                THEN upcoming(b, today, days, i + 1, Append(acc, b[i]))
                ELSE upcoming(b, today, days, i + 1, acc)

get_upcoming_birthdays(b, today, days) == upcoming(b, today, days, 1, <<>>)

(***************************************************************************)
(* The command handlers.  A handler returns [exc, val, book]: val is the   *)
(* returned text (its lines) when exc = NoExc, and <<str(e)>> when the     *)
(* handler raised; book is the address book it leaves.                     *)
(***************************************************************************)
Return(lines, b) == [exc |-> NoExc, val |-> lines, book |-> b]

Raise(exc, msg, b) == [exc |-> exc, val |-> <<msg>>, book |-> b]

\* The decorator: a ValueError becomes the returned str(e); any other
\* exception propagates.
input_error(res) ==
    IF res.exc = "ValueError" THEN [res EXCEPT !.exc = NoExc] ELSE res

\* The ValueError of unpacking args into too many targets.
NotEnoughValues(expected, got) ==
    "not enough values to unpack (expected " \o expected \o ", got "
    \o Dec(got, 1) \o ")"

\* The ValueError of unpacking args into too few targets.
TooManyValues(expected) ==
    "too many values to unpack (expected " \o expected \o ")"

\* The phone validated before the book is touched.
add_contact_validating(args, b) ==
    input_error(
      IF Len(args) < 2
      THEN Raise("ValueError", NotEnoughValues("at least 2", Len(args)), b)
      ELSE IF Phone(args[2]).exc # NoExc
      THEN Raise(Phone(args[2]).exc, Phone(args[2]).msg, b)
      ELSE
        LET name  == args[1]
            isNew == find(b, name) = 0
            b1    == IF isNew THEN add_record(b, Record(name)) ELSE b
            i     == find(b1, name)
        IN  Return(<<IF isNew THEN "Contact added." ELSE "Contact updated.">>,
                   [b1 EXCEPT ![i] = add_phone(b1[i], args[2]).rec]))

add_contact(args, b) ==
    input_error(
      IF Len(args) < 2
      THEN Raise("ValueError", NotEnoughValues("at least 2", Len(args)), b)
      ELSE
        LET name    == args[1]
            phone   == args[2]
            isNew   == find(b, name) = 0
            b1      == IF isNew THEN add_record(b, Record(name)) ELSE b
            message == IF isNew THEN "Contact added." ELSE "Contact updated."
            i       == find(b1, name)
            r       == IF phone # <<>> THEN add_phone(b1[i], phone)
                       ELSE Returned(b1[i])
        IN  IF r.exc # NoExc
            THEN Raise(r.exc, r.msg, [b1 EXCEPT ![i] = r.rec])
            ELSE Return(<<message>>, [b1 EXCEPT ![i] = r.rec]))

change_phone(args, b) ==
    input_error(
      IF Len(args) < 3
      THEN Raise("ValueError", NotEnoughValues("3", Len(args)), b)
      ELSE IF Len(args) > 3 THEN Raise("ValueError", TooManyValues("3"), b)
      ELSE
        LET name == args[1]
            i    == find(b, name)
        IN  IF i # 0
            THEN LET r == edit_phone(b[i], args[2], args[3])
                 IN  IF r.exc # NoExc
                     THEN Raise(r.exc, r.msg, [b EXCEPT ![i] = r.rec])
                     ELSE Return(<<"Phone number updated for contact "
                                   \o Str(name) \o ".">>,
                                 [b EXCEPT ![i] = r.rec])
            ELSE Return(<<"Contact " \o Str(name) \o " not found.">>, b))

show_phone(args, b) ==
    input_error(
      IF Len(args) < 1 THEN Raise("IndexError", "list index out of range", b)
      ELSE
        LET name == args[1]
            i    == find(b, name)
        IN  IF i # 0
            THEN Return(<<Str(name) \o "'s phones: "
                          \o Join(", ", Strs(b[i].phones))>>, b)
            ELSE Return(<<"Contact " \o Str(name) \o " not found.">>, b))

list_contacts(args, b) ==
    input_error(
      IF b = <<>> THEN Return(<<"Address book is empty.">>, b)
      ELSE Return(<<"Contacts in address book:">>
                  \o [i \in 1..Len(b) |-> Record_str(b[i])], b))

add_email_cmd(args, b) ==
    input_error(
      IF Len(args) < 2
      THEN Raise("ValueError", NotEnoughValues("at least 2", Len(args)), b)
      ELSE
        LET name  == args[1]
            email == args[2]
            i     == find(b, name)
        IN  IF i # 0
            THEN LET r == add_email(b[i], email)
                 IN  IF r.exc # NoExc
                     THEN Raise(r.exc, r.msg, [b EXCEPT ![i] = r.rec])
                     ELSE Return(<<"Email " \o Str(email)
                                   \o " added for contact " \o Str(name)
                                   \o ".">>,
                                 [b EXCEPT ![i] = r.rec])
            ELSE Return(<<"Contact " \o Str(name) \o " not found.">>, b))

change_email(args, b) ==
    input_error(
      IF Len(args) < 3
      THEN Raise("ValueError", NotEnoughValues("3", Len(args)), b)
      ELSE IF Len(args) > 3 THEN Raise("ValueError", TooManyValues("3"), b)
      ELSE
        LET name == args[1]
            i    == find(b, name)
        IN  IF i # 0
            THEN LET r == edit_email(b[i], args[2], args[3])
                 IN  IF r.exc # NoExc
                     THEN Raise(r.exc, r.msg, [b EXCEPT ![i] = r.rec])
                     ELSE Return(<<"Email updated for contact " \o Str(name)
                                   \o ".">>,
                                 [b EXCEPT ![i] = r.rec])
            ELSE Return(<<"Contact " \o Str(name) \o " not found.">>, b))

show_email(args, b) ==
    input_error(
      IF Len(args) < 1 THEN Raise("IndexError", "list index out of range", b)
      ELSE
        LET name == args[1]
            i    == find(b, name)
        IN  IF i # 0
            THEN Return(<<Str(name) \o "'s emails: "
                          \o Join(", ", Strs(b[i].emails))>>, b)
            ELSE Return(<<"Contact " \o Str(name) \o " not found.">>, b))

\* A contact that is not there is created, as `add` creates it.
add_birthday_cmd_creating(args, b) ==
    input_error(
      IF Len(args) < 2
      THEN Raise("ValueError", NotEnoughValues("2", Len(args)), b)
      ELSE IF Len(args) > 2 THEN Raise("ValueError", TooManyValues("2"), b)
      ELSE
        LET name == args[1]
            b1   == IF find(b, name) = 0 THEN add_record(b, Record(name))
                    ELSE b
            i    == find(b1, name)
            r    == add_birthday(b1[i], args[2])
        IN  IF r.exc # NoExc
            THEN Raise(r.exc, r.msg, [b1 EXCEPT ![i] = r.rec])
            ELSE Return(<<"Birthday added for contact " \o Str(name) \o ".">>,
                        [b1 EXCEPT ![i] = r.rec]))

add_birthday_cmd(args, b) ==
    input_error(
      IF Len(args) < 2
      THEN Raise("ValueError", NotEnoughValues("2", Len(args)), b)
      ELSE IF Len(args) > 2 THEN Raise("ValueError", TooManyValues("2"), b)
      ELSE
        LET name == args[1]
            i    == find(b, name)
        IN  IF i # 0
            THEN LET r == add_birthday(b[i], args[2])
                 IN  IF r.exc # NoExc
                     THEN Raise(r.exc, r.msg, [b EXCEPT ![i] = r.rec])
                     ELSE Return(<<"Birthday added for contact " \o Str(name)
                                   \o ".">>,
                                 [b EXCEPT ![i] = r.rec])
            ELSE Return(<<"Contact " \o Str(name) \o " not found.">>, b))

show_birthday(args, b) ==
    input_error(
      IF Len(args) < 1 THEN Raise("IndexError", "list index out of range", b)
      ELSE
        LET name == args[1]
            i    == find(b, name)
        IN  IF i # 0
            THEN IF b[i].birthday # None
                 THEN Return(<<Str(name) \o "'s birthday is on "
                               \o strftime(b[i].birthday[1]) \o ".">>, b)
                 ELSE Return(<<"Birthday not set for contact " \o Str(name)
                               \o ".">>, b)
            ELSE Return(<<"Contact " \o Str(name) \o " not found.">>, b))

\* int(s): an optional sign and a run of digits (the tokens of the inputs
\* hold no blanks and no underscores).
IsIntLiteral(s) ==
    LET body == IF s # <<>> /\ s[1] \in {"-", "+"} THEN Tail(s) ELSE s
    IN  body # <<>> /\ AllDigits(body)

IntVal(s) ==
    IF s[1] = "-" THEN 0 - DecVal(Tail(s))
    ELSE IF s[1] = "+" THEN DecVal(Tail(s))
    ELSE DecVal(s)

BirthdayLine(rec) ==
    Str(rec.name) \o " on " \o strftime(rec.birthday[1])

\* now is the reading datetime.now() gives inside get_upcoming_birthdays.
birthdays(args, b, now) ==
    input_error(
      IF args # <<>> /\ ~ IsIntLiteral(args[1])
      THEN Raise("ValueError",
                 "invalid literal for int() with base 10: '" \o Str(args[1])
                 \o "'", b)
      ELSE
        LET days == IF args # <<>> THEN IntVal(args[1]) ELSE 7
            u    == get_upcoming_birthdays(b, now, days)
        IN  IF u.exc # NoExc THEN Raise(u.exc, u.msg, b)
            ELSE IF u.val = <<>>
            THEN Return(<<"No upcoming birthdays within the next week.">>, b)
            ELSE Return(<<"Upcoming birthdays:">>
                        \o [i \in 1..Len(u.val) |-> BirthdayLine(u.val[i])],
                        b))

\* user_input.split() is the sequence parts of the tokens of the line.
parse_input(parts) == [command |-> Str(Lower(parts[1])), args |-> Tail(parts)]

(***************************************************************************)
(* The inputs of the model: the tokens a user types, and the input lines   *)
(* built from them (each line is the sequence user_input.split() yields).  *)
(***************************************************************************)
w_hello == <<"h", "e", "l", "l", "o">>
w_add == <<"a", "d", "d">>
w_change == <<"c", "h", "a", "n", "g", "e">>
w_phone == <<"p", "h", "o", "n", "e">>
w_email == <<"e", "m", "a", "i", "l">>
w_all == <<"a", "l", "l">>
w_add_birthday == <<"a", "d", "d", "-", "b", "i", "r", "t", "h", "d", "a", "y">>
w_show_birthday == <<"s", "h", "o", "w", "-", "b", "i", "r", "t", "h", "d", "a", "y">>
w_birthdays == <<"b", "i", "r", "t", "h", "d", "a", "y", "s">>
w_add_email == <<"a", "d", "d", "-", "e", "m", "a", "i", "l">>
w_show_email == <<"s", "h", "o", "w", "-", "e", "m", "a", "i", "l">>
w_change_email == <<"c", "h", "a", "n", "g", "e", "-", "e", "m", "a", "i", "l">>
w_close == <<"c", "l", "o", "s", "e">>
w_exit == <<"e", "x", "i", "t">>
w_EXIT == <<"E", "X", "I", "T">>
w_Close == <<"C", "l", "o", "s", "e">>
w_delete == <<"d", "e", "l", "e", "t", "e">>
John == <<"J", "o", "h", "n">>
Ghost == <<"G", "h", "o", "s", "t">>
P1 == <<"1", "2", "3", "4", "5", "6", "7", "8", "9", "0">>
P2 == <<"0", "9", "8", "7", "6", "5", "4", "3", "2", "1">>
PArabic == <<"U+0663", "U+0663", "U+0663", "U+0663", "U+0663", "U+0663", "U+0663", "U+0663", "U+0663", "U+0663">>
PShort == <<"1", "2", "3", "4", "5", "6", "7", "8", "9">>
PLong == <<"1", "2", "3", "4", "5", "6", "7", "8", "9", "0", "1">>
PAlpha == <<"1", "2", "3", "4", "5", "x", "7", "8", "9", "0">>
E1 == <<"j", "@", "x", ".", "i", "o">>
E2 == <<"g", "@", "y", ".", "o", "r", "g">>
ENoAt == <<"j", "x", ".", "i", "o">>
ENoDot == <<"j", "@", "x", "i", "o">>
D1 == <<"0", "5", ".", "1", "1", ".", "1", "9", "9", "0">>
D1Short == <<"5", ".", "1", "1", ".", "1", "9", "9", "0">>
D29 == <<"2", "9", ".", "0", "2", ".", "2", "0", "2", "0">>
DApril31 == <<"3", "1", ".", "0", "4", ".", "2", "0", "0", "0">>
DIso == <<"1", "9", "9", "0", "-", "1", "1", "-", "0", "5">>
n_0 == <<"0">>
n_x == <<"x">>
n_huge == <<"9", "9", "9", "9", "9", "9", "9", "9", "9">>

Names == {John, Ghost}

AddLines ==
    {<<w_add, John, p>> : p \in {P1, P2, PArabic, PShort, PLong, PAlpha}}
    \cup {<<w_add, Ghost, p>> : p \in {P1, PAlpha}}
    \cup {<<w_add, John>>, <<w_add, Ghost, P2, P1>>}

ChangeLines ==
    {<<w_change, n, P1, p>> : n \in Names, p \in {P2, PShort}}
    \cup {<<w_change, John, P2, P1>>, <<w_change, John, P1>>,
          <<w_change, Ghost, P1, P2, P2>>}

PhoneLines == {<<w_phone, n>> : n \in Names} \cup {<<w_phone>>}

AddEmailLines ==
    {<<w, n, e>> : w \in {w_add_email}, n \in Names, e \in {E1, ENoAt}}
    \cup {<<w_add_email, John, ENoDot>>, <<w_add_email, Ghost>>}

EmailLines == {<<w_email, John, E1>>}

ChangeEmailLines ==
    {<<w_change_email, n, E1, e>> : n \in Names, e \in {E2, ENoAt}}
    \cup {<<w_change_email, John, E2, E1>>, <<w_change_email, Ghost, E1>>}

ShowEmailLines == {<<w_show_email, n>> : n \in Names} \cup {<<w_show_email>>}

AddBirthdayLines ==
    {<<w_add_birthday, John, d>> : d \in {D1, D1Short, D29, DApril31, DIso}}
    \cup {<<w_add_birthday, Ghost, d>> : d \in {D1, DApril31}}
    \cup {<<w_add_birthday, Ghost>>}

ShowBirthdayLines ==
    {<<w_show_birthday, n>> : n \in Names} \cup {<<w_show_birthday>>}

BirthdaysLines ==
    {<<w_birthdays>>, <<w_birthdays, n_0>>, <<w_birthdays, n_x>>,
     <<w_birthdays, n_huge>>}

OtherLines ==
    {<<w_hello>>, <<w_all>>, <<w_close>>, <<w_exit>>, <<w_EXIT>>,
     <<w_Close, John>>, <<w_delete, John>>, <<>>}

Lines ==
    AddLines \cup ChangeLines \cup PhoneLines \cup AddEmailLines
    \cup EmailLines \cup ChangeEmailLines \cup ShowEmailLines
    \cup AddBirthdayLines \cup ShowBirthdayLines \cup BirthdaysLines
    \cup OtherLines

\* Readings of the clock: D1's day of 2026 at midnight exactly and later
\* that day, seven days before it, and a day of a leap year within a week
\* of 29 February.
Clock(y, m, d, t) == [year |-> y, month |-> m, day |-> d, tod |-> t]

Clocks ==
    {Clock(2026, 11, 5, 1), Clock(2026, 11, 5, 0), Clock(2026, 10, 29, 1),
     Clock(2028, 2, 25, 1)}

(***************************************************************************)
(* main(): one action per branch of the command loop.  status is where the *)
(* process is: "prompt" (about to read a line), "exited" (after break) or  *)
(* the name of the exception that ended it.  out is what the last pass of  *)
(* the loop printed, last the command, arguments and clock reading of that *)
(* pass, steps the number of lines read.                                   *)
(***************************************************************************)
COMMANDS ==
    {"hello", "add", "change", "phone", "email", "all", "add-birthday",
     "show-birthday", "birthdays", "add-email", "show-email", "change-email",
     "close", "exit"}

\* command, args = parse_input(user_input), for every line of the model.
Parsed == [parts \in Lines \ {<<>>} |-> parse_input(parts)]

\* The lines that take the branch `command == word` of the loop.
Typed(word) == {parts \in Lines \ {<<>>} : Parsed[parts].command = word}

Init ==
    /\ book = <<>>
    /\ out = <<"Welcome to the assistant bot!">>
    /\ status = "prompt"
    /\ last = [command |-> "", args |-> <<>>, now |-> None]
    /\ steps = 0

\* session.prompt returned a line whose split is parts.
Read(parts) == status = "prompt" /\ steps < MaxSteps

\* print(handler(args, book)): a handler that raised ends the process.
Respond(parts, now, res) ==
    /\ book' = res.book
    /\ out' = IF res.exc = NoExc THEN res.val ELSE <<>>
    /\ status' = IF res.exc = NoExc THEN "prompt" ELSE res.exc
    /\ last' = [command |-> Parsed[parts].command, args |-> Parsed[parts].args,
                now |-> now]
    /\ steps' = steps + 1


Blank ==
    \E parts \in Lines :
        /\ Read(parts)
        /\ parts = <<>>
        /\ out' = <<"No command entered. Please enter a command.">>
        /\ last' = [command |-> "", args |-> <<>>, now |-> None]
        /\ steps' = steps + 1
        /\ UNCHANGED <<book, status>>

Exit ==
    \E parts \in Lines :
        /\ Read(parts)
        /\ parts # <<>>
        /\ Parsed[parts].command \in {"close", "exit"}
        /\ out' = <<"Good bye!">>
        /\ status' = "exited"
        /\ last' = [command |-> Parsed[parts].command, args |-> Parsed[parts].args,
                    now |-> None]
        /\ steps' = steps + 1
        /\ UNCHANGED book

Hello ==
    \E parts \in Typed("hello") :
        /\ Read(parts)
        /\ Respond(parts, None, Return(<<"How can I help you?">>, book))

Add ==
    \E parts \in Typed("add") :
        /\ Read(parts)
        /\ Respond(parts, None, add_contact(Parsed[parts].args, book))

Change ==
    \E parts \in Typed("change") :
        /\ Read(parts)
        /\ Respond(parts, None, change_phone(Parsed[parts].args, book))

ShowPhone ==
    \E parts \in Typed("phone") :
        /\ Read(parts)
        /\ Respond(parts, None, show_phone(Parsed[parts].args, book))

AddEmail ==
    \E parts \in Typed("add-email") :
        /\ Read(parts)
        /\ Respond(parts, None, add_email_cmd(Parsed[parts].args, book))

ChangeEmail ==
    \E parts \in Typed("change-email") :
        /\ Read(parts)
        /\ Respond(parts, None, change_email(Parsed[parts].args, book))

ShowEmail ==
    \E parts \in Typed("show-email") :
        /\ Read(parts)
        /\ Respond(parts, None, show_email(Parsed[parts].args, book))

All ==
    \E parts \in Typed("all") :
        /\ Read(parts)
        /\ Respond(parts, None, list_contacts(Parsed[parts].args, book))

AddBirthday ==
    \E parts \in Typed("add-birthday") :
        /\ Read(parts)
        /\ Respond(parts, None,
                   add_birthday_cmd(Parsed[parts].args, book))

ShowBirthday ==
    \E parts \in Typed("show-birthday") :
        /\ Read(parts)
        /\ Respond(parts, None, show_birthday(Parsed[parts].args, book))

Birthdays ==
    \E parts \in Typed("birthdays"), now \in Clocks :
        /\ Read(parts)
        /\ Respond(parts, <<now>>,
                   birthdays(Parsed[parts].args, book, now))

Invalid ==
    \E parts \in Lines :
        /\ Read(parts)
        /\ parts # <<>>
        /\ Parsed[parts].command \notin
              {"close", "exit", "hello", "add", "change", "phone",
               "add-email", "change-email", "show-email", "all",
               "add-birthday", "show-birthday", "birthdays"}
        /\ Respond(parts, None, Return(<<"Invalid command.">>, book))

Next ==
    \/ Blank \/ Exit \/ Hello \/ Add \/ Change \/ ShowPhone \/ AddEmail
    \/ ChangeEmail \/ ShowEmail \/ All \/ AddBirthday \/ ShowBirthday
    \/ Birthdays \/ Invalid

Spec == Init /\ [][Next]_vars

(***************************************************************************)
(* The methods of one Record, called directly (the command loop reaches    *)
(* neither remove_phone nor remove_email).  book holds the one Record;     *)
(* out is <<>> when the call returned and the exception it raised          *)
(* otherwise; last is the method and its arguments.                        *)
(***************************************************************************)
RecordInit ==
    /\ book = <<Record(John)>>
    /\ out = <<>>
    /\ status = "prompt"
    /\ last = [command |-> "Record", args |-> <<John>>, now |-> None]
    /\ steps = 0

Call(method, args, r) ==
    /\ book' = <<r.rec>>
    /\ out' = IF r.exc = NoExc THEN <<>> ELSE <<r.exc \o ": " \o r.msg>>
    /\ last' = [command |-> method, args |-> args, now |-> None]
    /\ UNCHANGED <<status, steps>>

CallAddPhone ==
    \E phone \in {P1, P2, PShort} :
        /\ Len(book[1].phones) < MaxRecPhones
        /\ Call("add_phone", <<phone>>, add_phone(book[1], phone))

CallRemovePhone ==
    \E phone \in {P1, P2, PShort} :
        Call("remove_phone", <<phone>>, remove_phone(book[1], phone))

CallEditPhone ==
    \E old_phone \in {P1, P2}, new_phone \in {P1, P2, PShort, PLong} :
        Call("edit_phone", <<old_phone, new_phone>>,
             edit_phone(book[1], old_phone, new_phone))

CallAddEmail ==
    \E email \in {E1, E2, ENoAt} :
        /\ Len(book[1].emails) < MaxRecEmails
        /\ Call("add_email", <<email>>, add_email(book[1], email))

CallRemoveEmail ==
    \E email \in {E1, E2} :
        Call("remove_email", <<email>>, remove_email(book[1], email))

CallEditEmail ==
    \E old_email \in {E1}, new_email \in {E2, ENoDot} :
        Call("edit_email", <<old_email, new_email>>,
             edit_email(book[1], old_email, new_email))

CallAddBirthday ==
    \E birthday \in {D1, DApril31} :
        Call("add_birthday", <<birthday>>, add_birthday(book[1], birthday))

RecordNext ==
    \/ CallAddPhone \/ CallRemovePhone \/ CallEditPhone \/ CallAddEmail
    \/ CallRemoveEmail \/ CallEditEmail \/ CallAddBirthday

RecordSpec == RecordInit /\ [][RecordNext]_vars

(***************************************************************************)
(* The claims.  What the claims speak of, stated apart from the model's    *)
(* own operators.                                                          *)
(***************************************************************************)
\* A string of exactly ten decimal digits (ASCII, or any other Unicode
\* decimal digit).
TenDigits(s) ==
    /\ Len(s) = 10
    /\ \A i \in 1..Len(s) : s[i] \in AsciiDigits \cup {"U+0663"}

PhoneError == <<"Invalid phone number format. It should be 10 digits.">>

NamesOf(b) == [i \in 1..Len(b) |-> b[i].name]

InBook(b, name) == \E i \in 1..Len(b) : b[i].name = name

\* The phones held under name, <<>> when there is no such contact.
PhonesOf(b, name) ==
    IF InBook(b, name)
    THEN (CHOOSE r \in {b[i] : i \in 1..Len(b)} : r.name = name).phones
    ELSE <<>>

\* t is s without its first element equal to v.
WithoutFirst(s, v, t) ==
    \E i \in 1..Len(s) :
        /\ s[i] = v
        /\ \A k \in 1..(i - 1) : s[k] # v
        /\ Len(t) = Len(s) - 1
        /\ \A k \in 1..(i - 1) : t[k] = s[k]
        /\ \A k \in i..Len(t) : t[k] = s[k + 1]

\* The step just taken handled the command word with at least n arguments.
Handled(word, n) == last'.command = word /\ Len(last'.args) >= n

(***************************************************************************)
(* C1.  As stated: `add name phone` answers "Contact added." exactly when  *)
(* the name was not in the book before, "Contact updated." when it was,    *)
(* and in both cases appends the phone after the contact's phones.         *)
(***************************************************************************)
C1_AsStated ==
    [][Handled("add", 2) =>
         LET name == last'.args[1]
             phone == last'.args[2]
         IN  /\ (out' = <<"Contact added.">>) <=> ~ InBook(book, name)
             /\ InBook(book, name) => out' = <<"Contact updated.">>
             /\ PhonesOf(book', name) = Append(PhonesOf(book, name), phone)
      ]_vars

(***************************************************************************)
(* C1, amended.  With a phone of ten digits, `add name phone` answers      *)
(* "Contact added." exactly when the name was not in the book before and   *)
(* "Contact updated." when it was, and appends the phone after the         *)
(* contact's phones; with any other phone it answers the phone validation  *)
(* message and appends nothing.  `phone name` then lists the contact's     *)
(* phones in that order, joined by ", ".                                   *)
(***************************************************************************)
C1_AddContact ==
    [][/\ Handled("add", 2) =>
            LET name == last'.args[1]
                phone == last'.args[2]
            IN  IF TenDigits(phone)
                THEN /\ (out' = <<"Contact added.">>) <=> ~ InBook(book, name)
                     /\ InBook(book, name) => out' = <<"Contact updated.">>
                     /\ PhonesOf(book', name)
                          = Append(PhonesOf(book, name), phone)
                ELSE /\ out' = PhoneError
                     /\ PhonesOf(book', name) = PhonesOf(book, name)
       /\ (Handled("phone", 1) /\ InBook(book, last'.args[1])) =>
            /\ book' = book
            /\ out' = <<Str(last'.args[1]) \o "'s phones: "
                        \o Join(", ", Strs(PhonesOf(book, last'.args[1])))>>
      ]_vars

\* `add John 1234567890`, `add John 0987654321`, `phone John`.
C1_Witness ==
    /\ last.command = "phone"
    /\ last.args = <<John>>
    /\ PhonesOf(book, John) = <<P1, P2>>
    /\ out = <<"John's phones: 1234567890, 0987654321">>

(***************************************************************************)
(* C2.  Every phone stored in every record of the book is a string of      *)
(* exactly ten decimal digits, and `add` is answered with the phone        *)
(* validation message exactly when its phone is no such string.            *)
(***************************************************************************)
C2_StoredPhones ==
    /\ \A i \in 1..Len(book) :
           \A k \in 1..Len(book[i].phones) : TenDigits(book[i].phones[k])
    /\ (last.command = "add" /\ Len(last.args) >= 2) =>
           ((out = PhoneError) <=> ~ TenDigits(last.args[2]))
    /\ (last.command = "change" /\ out = PhoneError) =>
           ~ TenDigits(last.args[3])

\* A refused phone, with phones in the book.
C2_Witness ==
    /\ last.command \in {"add", "change"}
    /\ out = PhoneError
    /\ \E i \in 1..Len(book) : Len(book[i].phones) = 2

(***************************************************************************)
(* C3.  `birthdays [days]` lists, in the order of the book, exactly the    *)
(* records whose birthday's month and day, in the current year, fall on a  *)
(* date from today to today + days, both ends included (a birthday that    *)
(* falls today is listed).  Stated for birthdays that exist in the current *)
(* year and for a window that ends on a date the calendar has.             *)
(***************************************************************************)
C3_UpcomingWindow ==
    (/\ last.command = "birthdays"
     /\ last.args = <<>> \/ IsIntLiteral(last.args[1])) =>
        LET today == last.now[1]
            days  == IF last.args = <<>> THEN 7 ELSE IntVal(last.args[1])
            ThisYear(r) == [year |-> today.year, month |-> r.birthday[1].month,
                            day |-> r.birthday[1].day]
            Exists(r) ==
                r.birthday[1].day
                    <= DaysInMonth(today.year, r.birthday[1].month)
            InWindow(r) ==
                /\ r.birthday # <<>>
                /\ Ordinal(today) <= Ordinal(ThisYear(r))
                /\ Ordinal(ThisYear(r)) <= Ordinal(today) + days
            hits == SelectSeq(book, InWindow)
        IN  (/\ \A i \in 1..Len(book) :
                    book[i].birthday # <<>> => Exists(book[i])
             /\ Ordinal(today) + days \in 1..3652059) =>
                /\ status = "prompt"
                /\ out = IF hits = <<>>
                         THEN <<"No upcoming birthdays within the next week.">>
                         ELSE <<"Upcoming birthdays:">>
                              \o [i \in 1..Len(hits) |->
                                    Str(hits[i].name) \o " on "
                                    \o strftime(hits[i].birthday[1])]

(***************************************************************************)
(* C4.  No error is fatal to the command loop: after every line that is    *)
(* not blank and whose command word is not close or exit, a message has    *)
(* been printed and the loop is back at the prompt; the loop has ended     *)
(* only after close or exit.                                               *)
(***************************************************************************)
C4_NoFatalError ==
    /\ status \in {"prompt", "exited"}
    /\ status = "exited" <=> last.command \in {"close", "exit"}
    /\ (steps > 0 /\ last.command \notin {"", "close", "exit"}) =>
           (status = "prompt" /\ out # <<>>)

\* The commands, other than add, that look a contact up by name.
LookupCommands ==
    {"change", "phone", "add-email", "change-email", "show-email",
     "add-birthday", "show-birthday"}

(***************************************************************************)
(* C5.  As stated: each of change, phone, add-email, change-email,         *)
(* show-email, add-birthday and show-birthday, given the name of a contact *)
(* that is not in the book, answers "Contact <name> not found." and leaves *)
(* the book unchanged.                                                     *)
(***************************************************************************)
C5_AsStated ==
    [][(/\ last'.command \in LookupCommands
        /\ Len(last'.args) >= 1
        /\ ~ InBook(book, last'.args[1])) =>
           /\ out' = <<"Contact " \o Str(last'.args[1]) \o " not found.">>
           /\ book' = book
      ]_vars

\* The numbers of arguments each of these commands takes apart without error.
TakesApart(word, n) ==
    IF word \in {"change", "change-email"} THEN n = 3
    ELSE IF word = "add-birthday" THEN n = 2
    ELSE IF word = "add-email" THEN n >= 2
    ELSE n >= 1

(***************************************************************************)
(* C5, amended.  Each of these commands, given the name of a contact that  *)
(* is not in the book, leaves the book unchanged and the loop at the       *)
(* prompt; it answers "Contact <name> not found." when it is given the     *)
(* number of arguments it takes apart (three for change and change-email,  *)
(* two for add-birthday, two or more for add-email, one or more for the    *)
(* others), whatever the other arguments are, and another message when it  *)
(* is not.                                                                 *)
(***************************************************************************)
C5_NotFound ==
    [][(/\ last'.command \in LookupCommands
        /\ Len(last'.args) >= 1
        /\ ~ InBook(book, last'.args[1])) =>
           /\ book' = book
           /\ status' = "prompt"
           /\ (out' = <<"Contact " \o Str(last'.args[1]) \o " not found.">>)
                <=> TakesApart(last'.command, Len(last'.args))
      ]_vars

\* `add-birthday Ghost 31.04.2000`, a date no calendar has, while another
\* contact is in the book.
C5_Witness ==
    /\ last.command = "add-birthday"
    /\ last.args = <<Ghost, DApril31>>
    /\ out = <<"Contact Ghost not found.">>
    /\ NamesOf(book) = <<John>>

(***************************************************************************)
(* C6.  Every word of the command vocabulary is routed to a handler and    *)
(* never answered with "Invalid command."; `email name email` and          *)
(* `add-email name email`, for a contact of the book and a valid email,    *)
(* both append the email to the contact's emails.                          *)
(***************************************************************************)
C6_EmailAlias ==
    /\ last.command \in COMMANDS => out # <<"Invalid command.">>
    /\ (/\ last.command \in {"email", "add-email"}
        /\ Len(last.args) >= 2
        /\ InBook(book, last.args[1])
        /\ Email_validate(last.args[2])) =>
           \E i \in 1..Len(book) :
               /\ book[i].name = last.args[1]
               /\ book[i].emails # <<>>
               /\ book[i].emails[Len(book[i].emails)] = last.args[2]

\* The line of one contact in the listing.
C7_Line(rec) ==
    "Contact name: " \o Str(rec.name)
    \o ", phones: " \o Join("; ", [k \in 1..Len(rec.phones) |-> Str(rec.phones[k])])
    \o ", emails: " \o Join("; ", [k \in 1..Len(rec.emails) |-> Str(rec.emails[k])])
    \o ", birthday: "
    \o (IF rec.birthday = <<>> THEN "N/A"
        ELSE Dec(rec.birthday[1].day, 2) \o "." \o Dec(rec.birthday[1].month, 2)
             \o "." \o Dec(rec.birthday[1].year, 4))

(***************************************************************************)
(* C7.  The book keeps one record for each name an `add` has inserted, in  *)
(* the order of first insertion: a step adds at most one name, at the end, *)
(* and only an `add` of a name that was not there; and `all` prints one    *)
(* line for each record, in that order, showing its name, phones, emails   *)
(* and birthday (N/A when unset).                                          *)
(***************************************************************************)
C7_AllListing ==
    [][/\ \A i, k \in 1..Len(book') : book'[i].name = book'[k].name => i = k
       /\ Len(book') \in {Len(book), Len(book) + 1}
       /\ NamesOf(book) = SubSeq(NamesOf(book'), 1, Len(book))
       /\ Len(book') > Len(book) =>
             /\ Handled("add", 2)
             /\ book'[Len(book')].name = last'.args[1]
       /\ Handled("add", 2) => InBook(book', last'.args[1])
       /\ last'.command = "all" =>
             /\ book' = book
             /\ out' = IF book = <<>> THEN <<"Address book is empty.">>
                       ELSE <<"Contacts in address book:">>
                            \o [i \in 1..Len(book) |-> C7_Line(book[i])]
      ]_vars

\* `add John 1234567890`, `add-birthday John 5.11.1990`,
\* `add Ghost 12345x7890`, `all`.
C7_Witness ==
    /\ last.command = "all"
    /\ out = <<"Contacts in address book:",
               "Contact name: John, phones: 1234567890, emails: , birthday: 05.11.1990",
               "Contact name: Ghost, phones: , emails: , birthday: N/A">>

(***************************************************************************)
(* C8.  remove_phone(value) never raises, leaves name, emails and birthday *)
(* alone, and takes out of the phones only the first one equal to value,   *)
(* keeping the others (later duplicates of value too) in their order; when *)
(* no phone equals value the Record is unchanged, however often it is      *)
(* called.                                                                 *)
(***************************************************************************)
C8_RemovePhone ==
    [][last'.command = "remove_phone" =>
         LET value == last'.args[1]
             old   == book[1]
             new   == book'[1]
         IN  /\ out' = <<>>
             /\ new.name = old.name
             /\ new.emails = old.emails
             /\ new.birthday = old.birthday
             /\ IF \E i \in 1..Len(old.phones) : old.phones[i] = value
                THEN WithoutFirst(old.phones, value, new.phones)
                ELSE new.phones = old.phones
      ]_vars

\* A phone removed whose later duplicate stays, with an email and a
\* birthday in the Record.
C8_Witness ==
    /\ last.command = "remove_phone"
    /\ last.args = <<P1>>
    /\ book[1].phones = <<P2, P1>>
    /\ book[1].emails # <<>>
    /\ book[1].birthday # <<>>

(***************************************************************************)
(* C9.  edit_phone(old, new) is not atomic: when a phone equals old and    *)
(* new is valid, the first such phone is removed and new is appended at    *)
(* the end; when a phone equals old and new is invalid, the call fails     *)
(* with the validation error and the old phone is already removed; when no *)
(* phone equals old, the Record is unchanged and nothing is raised, new    *)
(* being valid or not.                                                     *)
(***************************************************************************)
C9_EditPhone ==
    [][last'.command = "edit_phone" =>
         LET old_phone == last'.args[1]
             new_phone == last'.args[2]
             old       == book[1]
             new       == book'[1]
         IN  /\ new.name = old.name
             /\ new.emails = old.emails
             /\ new.birthday = old.birthday
             /\ IF \E i \in 1..Len(old.phones) : old.phones[i] = old_phone
                THEN IF TenDigits(new_phone)
                     THEN /\ out' = <<>>
                          /\ new.phones # <<>>
                          /\ new.phones[Len(new.phones)] = new_phone
                          /\ WithoutFirst(old.phones, old_phone,
                                          SubSeq(new.phones, 1,
                                                 Len(new.phones) - 1))
                     ELSE /\ out' = <<"ValueError: " \o PhoneError[1]>>
                          /\ WithoutFirst(old.phones, old_phone, new.phones)
                ELSE /\ out' = <<>>
                     /\ new.phones = old.phones
      ]_vars

\* A failed edit that has taken the old phone out.
C9_Witness ==
    /\ last.command = "edit_phone"
    /\ last.args = <<P1, PShort>>
    /\ out = <<"ValueError: Invalid phone number format. It should be 10 digits.">>
    /\ book[1].phones = <<P2>>

(***************************************************************************)
(* C10.  `add name phone` with a name not in the book and an invalid phone *)
(* answers the phone validation message and yet leaves a record for the    *)
(* name, with no phones, at the end of the book; an `add` for a name that  *)
(* is in the book never answers "Contact added.", and answers "Contact     *)
(* updated." when its phone is valid; and no step takes a name out of the  *)
(* book.                                                                   *)
(***************************************************************************)
C10_InsertBeforeValidate ==
    [][/\ (/\ Handled("add", 2)
           /\ ~ InBook(book, last'.args[1])
           /\ ~ TenDigits(last'.args[2])) =>
              /\ out' = PhoneError
              /\ book' = Append(book, [name |-> last'.args[1], phones |-> <<>>,
                                       emails |-> <<>>, birthday |-> <<>>])
       /\ (Handled("add", 2) /\ InBook(book, last'.args[1])) =>
              /\ out' # <<"Contact added.">>
              /\ TenDigits(last'.args[2]) => out' = <<"Contact updated.">>
       /\ \A i \in 1..Len(book) : InBook(book', book[i].name)
      ]_vars

\* `add Ghost 12345x7890`, then `add Ghost 1234567890`.
C10_Witness ==
    /\ last.command = "add"
    /\ last.args = <<Ghost, P1>>
    /\ out = <<"Contact updated.">>
    /\ book = <<[name |-> Ghost, phones |-> <<P1>>, emails |-> <<>>,
                 birthday |-> <<>>]>>
    /\ steps = 2

====
